---- MODULE Spec2Model ----
(***************************************************************************)
(* Model of the llm_xml pipelines: generate_books.py (text repair,         *)
(* payload extraction, record parsing) and generate_ff_call.py (the same   *)
(* three stages plus function-descriptor parsing, argument synthesis and   *)
(* the whitelisted invoker).                                               *)
(*                                                                         *)
(* Python strings are sequences of one-character strings, so that find,    *)
(* slicing, split, strip and the regular expressions are computed on       *)
(* characters.  Parsed markup (the result of ET.fromstring) is a record    *)
(* tree.  Absent values (Python None) are the model value None.            *)
(***************************************************************************)
EXTENDS Integers, Sequences, FiniteSets, TLC

VARIABLES pc, text, xml_content, root, func, call_string, expr,
          available_functions, func_name, resolved, invoked, result

vars == <<pc, text, xml_content, root, func, call_string, expr,
          available_functions, func_name, resolved, invoked, result>>

\* Python's None.
None == "None"

----------------------------------------------------------------------------
\* Bounds of the checked input spaces.

\* Largest number of pieces an input text is concatenated from.
MaxPieces == 3

----------------------------------------------------------------------------
\* Character-level helpers (Python str operations).

Min(a, b) == IF a < b THEN a ELSE b

\* s[i..] begins with p (i is a 1-based position).
StartsWithAt(s, i, p) ==
    /\ i + Len(p) - 1 <= Len(s)
    /\ SubSeq(s, i, i + Len(p) - 1) = p

RECURSIVE FindFrom(_, _, _)
FindFrom(s, p, i) ==
    IF i + Len(p) - 1 > Len(s) THEN -1
    ELSE IF StartsWithAt(s, i, p) THEN i - 1
    ELSE FindFrom(s, p, i + 1)

\* str.find: 0-based index of the first occurrence of p in s, or -1.
str_find(s, p) == FindFrom(s, p, 1)

\* s[a:b] for a, b >= 0 (empty when a >= b).
Slice(s, a, b) == SubSeq(s, a + 1, Min(b, Len(s)))

RECURSIVE Flatten(_)
Flatten(ss) == IF ss = <<>> THEN <<>> ELSE Head(ss) \o Flatten(Tail(ss))

\* All sequences over S of length at most n.
SeqUpTo(S, n) == UNION {[1..k -> S] : k \in 0..n}

----------------------------------------------------------------------------
\* String literals of the source.

OPEN_TAG == <<"<", "b", "o", "o", "k", "l", "i", "s", "t", ">">>
CLOSE_TAG == <<"<", "/", "b", "o", "o", "k", "l", "i", "s", "t", ">">>
\* The grave accent (the code-fence character) is written "GRAVE".
FENCE_XML == <<"GRAVE", "GRAVE", "GRAVE", "x", "m", "l">>
FENCE == <<"GRAVE", "GRAVE", "GRAVE">>
AUTHOR_PREFIX == <<"<", "a", "u", "t", "h", "o", "r">>
AUTHOR_OPEN == <<"<", "a", "u", "t", "h", "o", "r", ">">>
AUTHOR_CLOSE == <<"<", "/", "a", "u", "t", "h", "o", "r", ">">>
GENRE_PREFIX == <<"<", "g", "e", "n", "r", "e", "|">>
GENRE_OPEN == <<"<", "g", "e", "n", "r", "e", ">">>
GENRE_CLOSE == <<"<", "/", "g", "e", "n", "r", "e", ">">>

\* The pieces input texts are built from: the two delimiters, the three
\* malformation markers, a tag end and a plain character.
Pieces == {OPEN_TAG, CLOSE_TAG, FENCE_XML, FENCE, AUTHOR_PREFIX,
           GENRE_PREFIX, <<">">>, <<"x">>}

Texts == {Flatten(ps) : ps \in SeqUpTo(Pieces, MaxPieces)}

----------------------------------------------------------------------------
\* clean_xml_content

\* re.sub of the fence pattern (fence followed by xml, or a bare fence) by
\* the empty string, scanning from position i; the first alternative is tried
\* first.
RECURSIVE SubFenceFrom(_, _)
SubFenceFrom(s, i) ==
    IF i > Len(s) THEN <<>>
    ELSE IF StartsWithAt(s, i, FENCE_XML) THEN SubFenceFrom(s, i + Len(FENCE_XML))
    ELSE IF StartsWithAt(s, i, FENCE) THEN SubFenceFrom(s, i + Len(FENCE))
    ELSE <<s[i]>> \o SubFenceFrom(s, i + 1)

SubFence(s) == SubFenceFrom(s, 1)

\* Position of the first '>' at or after j, 0 when there is none.
RECURSIVE NextGt(_, _)
NextGt(s, j) ==
    IF j > Len(s) THEN 0
    ELSE IF s[j] = ">" THEN j
    ELSE NextGt(s, j + 1)

\* re.sub(prefix + r'([^>]+)>', open + r'\1' + close, s), scanning from i:
\* leftmost non-overlapping matches, the group being the non-empty run of
\* characters other than '>' that follows the prefix.
RECURSIVE SubTagFrom(_, _, _, _, _)
SubTagFrom(s, i, prefix, open, close) ==
    IF i > Len(s) THEN <<>>
    ELSE LET j == i + Len(prefix)
             e == NextGt(s, j)
         IN IF StartsWithAt(s, i, prefix) /\ e > j
            THEN open \o SubSeq(s, j, e - 1) \o close
                      \o SubTagFrom(s, e + 1, prefix, open, close)
            ELSE <<s[i]>> \o SubTagFrom(s, i + 1, prefix, open, close)

SubAuthor(s) == SubTagFrom(s, 1, AUTHOR_PREFIX, AUTHOR_OPEN, AUTHOR_CLOSE)
SubGenre(s) == SubTagFrom(s, 1, GENRE_PREFIX, GENRE_OPEN, GENRE_CLOSE)

\* ''.join(re.sub(pattern, repl, xml_content) for pattern, repl in
\* transformations): every substitution is applied to the original argument
\* and the three results are concatenated.
clean_xml_content(s) == SubFence(s) \o SubAuthor(s) \o SubGenre(s)

----------------------------------------------------------------------------
\* extract_xml_content

ExtractionError == [status |-> "error", error |-> "No valid XML content found"]

\* The slice of the text that is handed to the normalizer.
extract_fragment(s) ==
    LET start == str_find(s, OPEN_TAG)
        end == str_find(s, CLOSE_TAG)
    IN Slice(s, start, end + Len(CLOSE_TAG))

\* BeautifulSoup(xml_content, "xml").prettify(): the library's canonical
\* rendering of the fragment, kept as a tagged value (it is not the fragment).
prettify(fragment) == [prettified |-> fragment]

extract_start_only_failure(s) == str_find(s, OPEN_TAG) = -1

\* case [-1, _] | [_, -1]
extract_fails(s) == str_find(s, OPEN_TAG) = -1 \/ str_find(s, CLOSE_TAG) = -1

extract_xml_content(s) ==
    IF extract_fails(s) THEN ExtractionError
    ELSE [status |-> "ok", value |-> prettify(extract_fragment(s))]

----------------------------------------------------------------------------
\* Parsed markup.  ET.fromstring is the standard library's parser; the model
\* starts from the element tree it returns.  An element is a record with a
\* tag, a text (None when the element has no text) and a list of children.

MaxChildren == 2
MaxBooks == 2

\* The result of Element.find when no child matches.
NoElement == [tag |-> None, text |-> None]

\* Children a book element is given in the checked inputs.
BookChildren == {[tag |-> "title", text |-> "Dune"],
                 [tag |-> "title", text |-> None],
                 [tag |-> "author", text |-> "Herbert"]}

RootChildren ==
    {[tag |-> "book", text |-> None, children |-> cs] :
        cs \in SeqUpTo(BookChildren, MaxChildren)}
    \cup {[tag |-> "magazine", text |-> None, children |-> <<>>]}

BookRoots ==
    {[tag |-> "booklist", text |-> None, children |-> cs] :
        cs \in SeqUpTo(RootChildren, MaxBooks)}

\* Element.find(tag): the first child with the tag, or None.
RECURSIVE FindChildFrom(_, _, _)
FindChildFrom(cs, tag, i) ==
    IF i > Len(cs) THEN NoElement
    ELSE IF cs[i].tag = tag THEN cs[i]
    ELSE FindChildFrom(cs, tag, i + 1)

find(elem, tag) == FindChildFrom(elem.children, tag, 1)

all_children(elem, tag) == elem.children

\* Element.findall(tag): the children with the tag, in document order.
findall(elem, tag) == SelectSeq(elem.children, LAMBDA c : c.tag = tag)

get_element_text_no_default(elem) == elem.text

\* match elem: case None: default; case _: elem.text or default
get_element_text(elem) ==
    IF elem = NoElement THEN "Unknown"
    ELSE IF elem.text = None \/ elem.text = "" THEN "Unknown"
    ELSE elem.text

elements == {"title", "author", "publication_year", "genre", "isbn"}

create_book_dict(book_elem) ==
    [element \in elements |-> get_element_text(find(book_elem, element))]

book_elements(r) == findall(r, "book")

parse_books_xml(r) ==
    LET books == book_elements(r)
    IN [i \in 1..Len(books) |-> create_book_dict(books[i])]

----------------------------------------------------------------------------
\* Function descriptors: parse_function_def, convert_type,
\* generate_function_call.

MaxParams == 2

\* An optional string: the text of an element, or a Parameter's value.
Absent == [some |-> FALSE]
Some(s) == [some |-> TRUE, val |-> s]

ParamNames == {"a", "b"}

\* The declared types and raw texts of the checked Parameter elements: for
\* every converter a text it accepts and one it rejects or maps to false,
\* and an unrecognized type with and without text.
TypedTexts ==
    {<<"int", Absent>>, <<"int", Some(<<"5">>)>>, <<"int", Some(<<"3">>)>>,
     <<"int", Some(<<"1", ".", "5">>)>>,
     <<"float", Some(<<"1", ".", "5">>)>>, <<"float", Some(<<"T", "R", "U", "E">>)>>,
     <<"str", Absent>>, <<"str", Some(<<"5">>)>>,
     <<"bool", Some(<<"T", "R", "U", "E">>)>>, <<"bool", Some(<<"5">>)>>,
     <<"date", Absent>>, <<"date", Some(<<"5">>)>>}

ParameterElements ==
    {[tag |-> "Parameter", name |-> n, type |-> tv[1], text |-> tv[2]] :
        n \in ParamNames, tv \in TypedTexts}

Section(tag, ps) == [tag |-> tag, children |-> ps]

\* Where the Parameter elements sit under the root: in one Input element,
\* in an Input element that follows an Output element, split over two Input
\* elements, or in an Output element only.
Layouts == {"input", "output_input", "two_inputs", "output"}

LayoutChildren(layout, ps) ==
    CASE layout = "input" -> <<Section("Input", ps)>>
      [] layout = "output_input" -> <<Section("Output", <<>>), Section("Input", ps)>>
      [] layout = "two_inputs" ->
            <<Section("Input", SubSeq(ps, 1, Len(ps) \div 2)),
              Section("Input", SubSeq(ps, Len(ps) \div 2 + 1, Len(ps)))>>
      [] layout = "output" -> <<Section("Output", ps)>>

FunctionRoots ==
    {[tag |-> "Function", name |-> "CalculateSum",
      children |-> LayoutChildren(layout, ps)] :
        layout \in Layouts, ps \in SeqUpTo(ParameterElements, MaxParams)}

\* root.findall('./Input/Parameter'): the Parameter children of the Input
\* children of the root, in document order.
RECURSIVE input_parameters_from(_, _)
input_parameters_from(sections, i) ==
    IF i > Len(sections) THEN <<>>
    ELSE (IF sections[i].tag = "Input"
          THEN SelectSeq(sections[i].children, LAMBDA c : c.tag = "Parameter")
          ELSE <<>>) \o input_parameters_from(sections, i + 1)

\* value=param.text if param.text else None
parameter_value(param) ==
    IF param.text.some /\ param.text.val # <<>> THEN param.text ELSE Absent

parse_function_def(r) ==
    LET found == input_parameters_from(r.children, 1)
    IN [name |-> r.name,
        parameters |-> [i \in 1..Len(found) |->
                            [name |-> found[i].name,
                             type |-> found[i].type,
                             value |-> parameter_value(found[i])]]]

Digits == <<"0", "1", "2", "3", "4", "5", "6", "7", "8", "9">>
IsDigit(c) == \E d \in 1..10 : Digits[d] = c
DigitVal(c) == (CHOOSE d \in 1..10 : Digits[d] = c) - 1
AllDigits(s) == \A i \in 1..Len(s) : IsDigit(s[i])

RECURSIVE DigitsValue(_)
DigitsValue(s) ==
    IF s = <<>> THEN 0
    ELSE 10 * DigitsValue(SubSeq(s, 1, Len(s) - 1)) + DigitVal(s[Len(s)])

RECURSIVE Pow10(_)
Pow10(n) == IF n = 0 THEN 1 ELSE 10 * Pow10(n - 1)

IsSign(c) == c = "+" \/ c = "-"
Unsigned(s) == IF s # <<>> /\ IsSign(s[1]) THEN Tail(s) ELSE s
SignOf(s) == IF s # <<>> /\ s[1] = "-" THEN -1 ELSE 1

Converted(v) == [ok |-> TRUE, val |-> v]
ConversionFailure(kind) == [ok |-> FALSE, error |-> kind]

\* int(value): an optional sign and decimal digits (the checked values hold
\* no whitespace and no underscores).
convert_int(s) ==
    LET u == Unsigned(s)
    IN IF u # <<>> /\ AllDigits(u)
       THEN Converted([t |-> "int", v |-> SignOf(s) * DigitsValue(u)])
       ELSE ConversionFailure("ValueConversion")

\* float(value): an optional sign, digits, and an optional point followed by
\* digits, with a digit on at least one side; the value is num / den.
convert_float(s) ==
    LET u == Unsigned(s)
        dot == str_find(u, <<".">>)
        whole == IF dot = -1 THEN u ELSE Slice(u, 0, dot)
        frac == IF dot = -1 THEN <<>> ELSE Slice(u, dot + 1, Len(u))
    IN IF AllDigits(whole) /\ AllDigits(frac) /\ whole \o frac # <<>>
       THEN Converted([t |-> "float",
                       num |-> SignOf(s) * DigitsValue(whole \o frac),
                       den |-> Pow10(Len(frac))])
       ELSE ConversionFailure("ValueConversion")

UpperLetters == <<"A", "B", "C", "D", "E", "F", "G", "H", "I", "J", "K", "L", "M",
                  "N", "O", "P", "Q", "R", "S", "T", "U", "V", "W", "X", "Y", "Z">>
LowerLetters == <<"a", "b", "c", "d", "e", "f", "g", "h", "i", "j", "k", "l", "m",
                  "n", "o", "p", "q", "r", "s", "t", "u", "v", "w", "x", "y", "z">>

LowerChar(c) ==
    IF \E i \in 1..Len(UpperLetters) : UpperLetters[i] = c
    THEN LowerLetters[CHOOSE i \in 1..Len(UpperLetters) : UpperLetters[i] = c]
    ELSE c

\* str.lower
lower(s) == [i \in 1..Len(s) |-> LowerChar(s[i])]

\* lambda x: x.lower() == 'true'
convert_bool(s) == Converted([t |-> "bool", v |-> lower(s) = <<"t", "r", "u", "e">>])

convert_str(s) == Converted([t |-> "str", v |-> s])

type_converters == {"int", "float", "str", "bool"}

\* The converter the table gives for a type name.
apply_converter(s, type_name) ==
    CASE type_name = "int" -> convert_int(s)
      [] type_name = "float" -> convert_float(s)
      [] type_name = "str" -> convert_str(s)
      [] type_name = "bool" -> convert_bool(s)

convert_type_default_str(value, type_name) ==
    IF ~value.some THEN Converted([t |-> "NoneType"])
    ELSE IF type_name \notin type_converters THEN convert_str(value.val)
    ELSE apply_converter(value.val, type_name)

convert_type(value, type_name) ==
    IF ~value.some THEN Converted([t |-> "NoneType"])
    ELSE IF type_name \notin type_converters THEN ConversionFailure("UnsupportedType")
    ELSE apply_converter(value.val, type_name)

include_every_parameter(param) == TRUE

\* if param.value is not None
parameter_included(param) == param.value.some

EmptyDict == [n \in {} |-> None]

\* The dict comprehension: the parameters are visited in order, a later entry
\* replaces an earlier one with the same key, and the first failing
\* conversion ends the call.
RECURSIVE generate_from(_, _, _)
generate_from(params, i, acc) ==
    IF i > Len(params) THEN [status |-> "ok", value |-> acc]
    ELSE IF ~parameter_included(params[i]) THEN generate_from(params, i + 1, acc)
    ELSE LET c == convert_type(params[i].value, params[i].type)
         IN IF ~c.ok THEN [status |-> "error", error |-> c.error]
            ELSE generate_from(params, i + 1,
                     [n \in DOMAIN acc \cup {params[i].name} |->
                         IF n = params[i].name THEN c.val ELSE acc[n]])

generate_function_call(f) == generate_from(f.parameters, 1, EmptyDict)

----------------------------------------------------------------------------
\* execute_function_call

MaxArgs == 2

N_CalculateSum == <<"C", "a", "l", "c", "u", "l", "a", "t", "e", "S", "u", "m">>
N_Delete == <<"D", "e", "l", "e", "t", "e">>
N_Other == <<"O", "t", "h", "e", "r">>
N_len == <<"l", "e", "n">>

\* The callables a caller may put in the whitelist: calculate_sum(a, b)
\* returns a + b (example_usage); other_fn() takes no argument and returns 7.
CallableOf(name) == IF name = N_CalculateSum THEN "calculate_sum" ELSE "other_fn"

Whitelists ==
    {[n \in names |-> CallableOf(n)] : names \in SUBSET {N_CalculateSum, N_Other}}

\* Call expressions: a head name, optional blanks around it, and keyword
\* arguments whose values are integer literals, names or calls without
\* arguments.  call_string is the text of the expression.
ArgValues ==
    {[kind |-> "int", lit |-> <<"5">>], [kind |-> "int", lit |-> <<"3">>],
     [kind |-> "name", lit |-> N_Other],
     [kind |-> "call", lit |-> N_Other], [kind |-> "call", lit |-> N_len]}

Keywords == {<<"a">>, <<"b">>}
Args == [kw : Keywords, val : ArgValues]
HeadNames == {N_CalculateSum, N_Delete, N_Other, N_len}
Pads == {"none", "before", "after"}

Exprs == [head : HeadNames, pad : Pads, args : SeqUpTo(Args, MaxArgs)]

RenderValue(v) == IF v.kind = "call" THEN v.lit \o <<"(", ")">> ELSE v.lit

RECURSIVE RenderArgs(_)
RenderArgs(args) ==
    IF args = <<>> THEN <<>>
    ELSE Head(args).kw \o <<"=">> \o RenderValue(Head(args).val)
         \o (IF Len(args) > 1 THEN <<",", " ">> ELSE <<>>)
         \o RenderArgs(Tail(args))

Render(e) ==
    (IF e.pad = "before" THEN <<" ">> ELSE <<>>) \o e.head
    \o (IF e.pad = "after" THEN <<" ">> ELSE <<>>)
    \o <<"(">> \o RenderArgs(e.args) \o <<")">>

IsSpace(c) == c \in {" ", "\t", "\n", "\r"}

RECURSIVE lstrip(_)
lstrip(s) == IF s # <<>> /\ IsSpace(Head(s)) THEN lstrip(Tail(s)) ELSE s

RECURSIVE rstrip(_)
rstrip(s) ==
    IF s # <<>> /\ IsSpace(s[Len(s)]) THEN rstrip(SubSeq(s, 1, Len(s) - 1)) ELSE s

\* str.strip
strip(s) == lstrip(rstrip(s))

\* s.split('(')[0]: the text before the first '(' (all of s without one).
split_first(s) ==
    LET i == str_find(s, <<"(">>)
    IN IF i = -1 THEN s ELSE Slice(s, 0, i)

extract_func_name(s) == strip(split_first(s))

name_check_always_passes(name, whitelist) == TRUE

\* if func_name not in available_functions: raise ValueError
name_check_passes(name, whitelist) == name \in DOMAIN whitelist

UnknownFunctionError == [status |-> "error", error |-> "UnknownFunction"]

\* eval(call_string, {"__builtins__": {}}, available_functions): a name is
\* looked up in the locals (the whole whitelist), then in the globals (which
\* hold only the empty builtins table), then in that table.
eval_builtins == {}

name_resolves(name, whitelist) == name \in DOMAIN whitelist \/ name \in eval_builtins

IntValue(n) == [t |-> "int", v |-> n]
FnValue(c) == [t |-> "fn", v |-> c]

KwA == <<"a">>
KwB == <<"b">>

\* Calling a callable with keyword arguments: [ok, ran, value | error];
\* ran tells whether the body of the callable was entered.
apply_callable(c, kwargs) ==
    IF c = "calculate_sum"
    THEN IF DOMAIN kwargs # {KwA, KwB}
         THEN [ok |-> FALSE, ran |-> FALSE, error |-> "TypeError"]
         ELSE IF kwargs[KwA].t = "int" /\ kwargs[KwB].t = "int"
         THEN [ok |-> TRUE, ran |-> TRUE,
               value |-> IntValue(kwargs[KwA].v + kwargs[KwB].v)]
         ELSE [ok |-> FALSE, ran |-> TRUE, error |-> "TypeError"]
    ELSE IF DOMAIN kwargs # {}
         THEN [ok |-> FALSE, ran |-> FALSE, error |-> "TypeError"]
         ELSE [ok |-> TRUE, ran |-> TRUE, value |-> IntValue(7)]

NoKwargs == [k \in {} |-> IntValue(0)]

\* The state of an evaluation: names resolved so far, callables whose body was
\* entered so far (in order), keyword values bound so far, the value of the
\* last evaluated expression, and the error that ended it ("" while none did).
NoValue == [t |-> "none"]
EvalStart == [resolved |-> {}, invoked |-> <<>>, kwargs |-> NoKwargs,
              value |-> NoValue, error |-> ""]

\* Evaluating one argument value.
eval_value(v, whitelist, st) ==
    IF v.kind = "int"
    THEN [st EXCEPT !.value = IntValue(DigitsValue(v.lit))]
    ELSE IF ~name_resolves(v.lit, whitelist)
    THEN [st EXCEPT !.error = "NameError"]
    ELSE LET c == whitelist[v.lit]
             seen == [st EXCEPT !.resolved = @ \cup {v.lit}]
         IN IF v.kind = "name"
            THEN [seen EXCEPT !.value = FnValue(c)]
            ELSE LET r == apply_callable(c, NoKwargs)
                     ran == [seen EXCEPT !.invoked =
                                 IF r.ran THEN Append(@, c) ELSE @]
                 IN IF r.ok
                    THEN [ran EXCEPT !.value = r.value]
                    ELSE [ran EXCEPT !.error = r.error]

\* The keyword arguments are evaluated left to right; the first error ends it.
RECURSIVE eval_args(_, _, _, _)
eval_args(args, i, whitelist, st) ==
    IF i > Len(args) \/ st.error # "" THEN st
    ELSE LET one == eval_value(args[i].val, whitelist, st)
         IN eval_args(args, i + 1, whitelist,
                [one EXCEPT !.kwargs =
                    IF one.error # "" THEN @
                    ELSE [k \in DOMAIN @ \cup {args[i].kw} |->
                             IF k = args[i].kw THEN one.value ELSE @[k]]])

RepeatedKeyword(args) ==
    \E i, j \in 1..Len(args) : i # j /\ args[i].kw = args[j].kw

\* The evaluation of a call expression: compiling it (a repeated keyword is a
\* syntax error), loading the head name, evaluating the arguments, calling.
eval_call(e, whitelist) ==
    IF RepeatedKeyword(e.args) THEN [EvalStart EXCEPT !.error = "SyntaxError"]
    ELSE IF ~name_resolves(e.head, whitelist)
    THEN [EvalStart EXCEPT !.error = "NameError"]
    ELSE LET c == whitelist[e.head]
             st == eval_args(e.args, 1, whitelist,
                             [EvalStart EXCEPT !.resolved = {e.head}])
         IN IF st.error # "" THEN st
            ELSE LET r == apply_callable(c, st.kwargs)
                     ran == [st EXCEPT !.invoked = IF r.ran THEN Append(@, c) ELSE @]
                 IN IF r.ok
                    THEN [ran EXCEPT !.value = r.value]
                    ELSE [ran EXCEPT !.error = r.error]

eval_result(st) ==
    IF st.error # "" THEN [status |-> "error", error |-> st.error]
    ELSE [status |-> "ok", value |-> st.value]

----------------------------------------------------------------------------
\* The state machine.  pc is the position of the caller: "idle" before a
\* call, then the name of the point reached.  Every specification starts
\* from inputs drawn from the bounded sets above.

NoResult == [status |-> "none"]
NoFunc == [name |-> None, parameters |-> <<>>]
NoRoot == [tag |-> None, text |-> None, children |-> <<>>]
NoExpr == [head |-> <<>>, pad |-> "none", args |-> <<>>]

Idle ==
    /\ pc = "idle"
    /\ xml_content = <<>>
    /\ func = NoFunc
    /\ func_name = <<>>
    /\ resolved = {}
    /\ invoked = <<>>
    /\ result = NoResult

InitText ==
    /\ Idle
    /\ text \in Texts
    /\ root = NoRoot
    /\ expr = NoExpr
    /\ call_string = <<>>
    /\ available_functions = EmptyDict

InitBooks ==
    /\ Idle
    /\ text = <<>>
    /\ root \in BookRoots
    /\ expr = NoExpr
    /\ call_string = <<>>
    /\ available_functions = EmptyDict

InitFunc ==
    /\ Idle
    /\ text = <<>>
    /\ root \in FunctionRoots
    /\ expr = NoExpr
    /\ call_string = <<>>
    /\ available_functions = EmptyDict

InitExec ==
    /\ Idle
    /\ text = <<>>
    /\ root = NoRoot
    /\ expr \in Exprs
    /\ call_string = Render(expr)
    /\ available_functions \in Whitelists

\* clean_xml_content(text)
CleanXmlContent ==
    /\ pc = "idle"
    /\ pc' = "clean_done"
    /\ result' = [status |-> "ok", value |-> clean_xml_content(text)]
    /\ UNCHANGED <<text, xml_content, root, func, call_string, expr,
                   available_functions, func_name, resolved, invoked>>

\* extract_xml_content(text)
ExtractXmlContent ==
    /\ pc = "idle"
    /\ pc' = "extract_done"
    /\ result' = extract_xml_content(text)
    /\ xml_content' = IF extract_fails(text) THEN xml_content
                      ELSE extract_fragment(text)
    /\ UNCHANGED <<text, root, func, call_string, expr, available_functions,
                   func_name, resolved, invoked>>

\* parse_books_xml(xml_content), from the parsed tree
ParseBooksXml ==
    /\ pc = "idle"
    /\ pc' = "books_done"
    /\ result' = [status |-> "ok", value |-> parse_books_xml(root)]
    /\ UNCHANGED <<text, xml_content, root, func, call_string, expr,
                   available_functions, func_name, resolved, invoked>>

\* parse_function_def(xml_content), from the parsed tree
ParseFunctionDef ==
    /\ pc = "idle"
    /\ pc' = "parsed"
    /\ func' = parse_function_def(root)
    /\ UNCHANGED <<text, xml_content, root, call_string, expr,
                   available_functions, func_name, resolved, invoked, result>>

\* generate_function_call(func)
GenerateFunctionCall ==
    /\ pc = "parsed"
    /\ pc' = "generate_done"
    /\ result' = generate_function_call(func)
    /\ UNCHANGED <<text, xml_content, root, func, call_string, expr,
                   available_functions, func_name, resolved, invoked>>

\* execute_function_call, up to the name check
ExecuteNameCheck ==
    /\ pc = "idle"
    /\ func_name' = extract_func_name(call_string)
    /\ IF name_check_passes(func_name', available_functions)
       THEN pc' = "exec_eval" /\ UNCHANGED result
       ELSE pc' = "exec_done" /\ result' = UnknownFunctionError
    /\ UNCHANGED <<text, xml_content, root, func, call_string, expr,
                   available_functions, resolved, invoked>>

\* execute_function_call, the eval of the call string; an exception of the
\* evaluation is logged and raised again.
ExecuteEval ==
    /\ pc = "exec_eval"
    /\ pc' = "exec_done"
    /\ LET st == eval_call(expr, available_functions)
       IN /\ resolved' = st.resolved
          /\ invoked' = st.invoked
          /\ result' = eval_result(st)
    /\ UNCHANGED <<text, xml_content, root, func, call_string, expr,
                   available_functions, func_name>>

NextText == CleanXmlContent \/ ExtractXmlContent
NextBooks == ParseBooksXml
NextFunc == ParseFunctionDef \/ GenerateFunctionCall
NextExec == ExecuteNameCheck \/ ExecuteEval

SpecText == InitText /\ [][NextText]_vars
SpecBooks == InitBooks /\ [][NextBooks]_vars
SpecFunc == InitFunc /\ [][NextFunc]_vars
SpecExec == InitExec /\ [][NextExec]_vars

----------------------------------------------------------------------------
\* Properties.

\* p occurs in s.
Occurs(p, s) == \E i \in 1..Len(s) : StartsWithAt(s, i, p)

\* The text before the first '(' of s, without surrounding blanks.
LeadingName(s) ==
    LET parens == {i \in 1..Len(s) : s[i] = "("}
        stop == IF parens = {} THEN Len(s) + 1
                ELSE CHOOSE i \in parens : \A k \in parens : i <= k
        inked == {i \in 1..(stop - 1) : ~IsSpace(s[i])}
    IN IF inked = {} THEN <<>>
       ELSE SubSeq(s, CHOOSE i \in inked : \A k \in inked : i <= k,
                      CHOOSE i \in inked : \A k \in inked : i >= k)

\* C1: once the name check has passed, the evaluation of the call expression
\* resolves no name other than the whitelisted head name and enters no
\* callable other than the one it names.
C1_OnlyHeadReachable ==
    (pc = "exec_done" /\ name_check_passes(func_name, available_functions))
        => /\ resolved \subseteq {func_name}
           /\ \A i \in 1..Len(invoked) : invoked[i] = available_functions[func_name]

\* C2: when the leading name of the call expression is not a key of the
\* whitelist, the call ends with the unknown-function error and at no point
\* is a name of the expression resolved or a callable entered.
C2_UnknownNameRejectedBeforeEval ==
    (pc # "idle" /\ LeadingName(call_string) \notin DOMAIN available_functions)
        => /\ pc = "exec_done"
           /\ result = UnknownFunctionError
           /\ resolved = {}
           /\ invoked = <<>>

C2_Witness ==
    /\ pc = "exec_done"
    /\ expr.head = N_Delete
    /\ expr.args # <<>>
    /\ N_CalculateSum \in DOMAIN available_functions
    /\ result = UnknownFunctionError

\* C3: a text in which the opening or the closing delimiter does not occur
\* makes extract_xml_content fail with the extraction error, and no payload
\* is produced.
C3_MissingDelimiterFails ==
    (pc = "extract_done" /\ (~Occurs(OPEN_TAG, text) \/ ~Occurs(CLOSE_TAG, text)))
        => /\ result = ExtractionError
           /\ xml_content = <<>>

C3_Witness ==
    /\ pc = "extract_done"
    /\ Occurs(OPEN_TAG, text)
    /\ ~Occurs(CLOSE_TAG, text)
    /\ result = ExtractionError

\* C4: with both delimiters in the text, the selected fragment runs from the
\* first opening delimiter through the end of the first closing delimiter
\* after it (so it begins with the one and ends with the other), and the call
\* fails with the extraction error when no closing delimiter follows the
\* opening one.
C4_FragmentFromFirstOpenToNextClose ==
    (pc = "extract_done" /\ Occurs(OPEN_TAG, text) /\ Occurs(CLOSE_TAG, text))
        => LET opens == {i \in 1..Len(text) : StartsWithAt(text, i, OPEN_TAG)}
               o == CHOOSE i \in opens : \A k \in opens : i <= k
               closes == {i \in 1..Len(text) :
                             i > o /\ StartsWithAt(text, i, CLOSE_TAG)}
               c == CHOOSE i \in closes : \A k \in closes : i <= k
           IN IF closes = {} THEN result = ExtractionError
              ELSE /\ result.status = "ok"
                   /\ xml_content = SubSeq(text, o, c + Len(CLOSE_TAG) - 1)
                   /\ StartsWithAt(xml_content, 1, OPEN_TAG)
                   /\ StartsWithAt(xml_content,
                                   Len(xml_content) - Len(CLOSE_TAG) + 1, CLOSE_TAG)

\* A text free of the three malformations.
IsCleanText(s) ==
    /\ ~Occurs(FENCE, s)
    /\ \A prefix \in {AUTHOR_PREFIX, GENRE_PREFIX} :
          ~\E i \in 1..Len(s), e \in 1..Len(s) :
              /\ StartsWithAt(s, i, prefix)
              /\ e > i + Len(prefix)
              /\ s[e] = ">"
              /\ \A k \in (i + Len(prefix))..(e - 1) : s[k] # ">"

\* C5: on a text free of the three malformations, cleaning the cleaned text
\* gives the cleaned text again.
C5_CleanIdempotentOnCleanText ==
    (pc = "clean_done" /\ IsCleanText(text))
        => clean_xml_content(result.value) = result.value

\* C6: the cleaned text is the genre repair of the author repair of the fence
\* removal of the input: one repaired copy of the input.
C6_CleanIsOrderedComposition ==
    pc = "clean_done" => result.value = SubGenre(SubAuthor(SubFence(text)))

\* C7: every record has a string for each of the five fields: "Unknown" when
\* the book element has no such child or the child has no text, and the text
\* of the child otherwise.
C7_FieldsDefaultedOrCopied ==
    pc = "books_done"
        => LET books == findall(root, "book")
           IN /\ Len(result.value) = Len(books)
              /\ \A i \in 1..Len(books) :
                    LET cs == books[i].children
                        rec == result.value[i]
                    IN /\ DOMAIN rec = {"title", "author", "publication_year",
                                        "genre", "isbn"}
                       /\ \A f \in DOMAIN rec :
                             LET at == {k \in 1..Len(cs) : cs[k].tag = f}
                                 first == CHOOSE k \in at : \A j \in at : k <= j
                             IN /\ rec[f] # None
                                /\ rec[f] = IF at = {} THEN "Unknown"
                                            ELSE IF cs[first].text \in {None, ""}
                                            THEN "Unknown"
                                            ELSE cs[first].text

C7_Witness ==
    /\ pc = "books_done"
    /\ \E i \in 1..Len(result.value) :
          /\ findall(root, "book")[i].children =
                 <<[tag |-> "title", text |-> None],
                   [tag |-> "author", text |-> "Herbert"]>>
          /\ result.value[i]["title"] = "Unknown"
          /\ result.value[i]["author"] = "Herbert"
          /\ result.value[i]["isbn"] = "Unknown"

\* C8: the result has one record for every book child of the root, the i-th
\* record being built from the i-th book child in document order; equal book
\* elements give separate records.
C8_OneRecordPerBookInOrder ==
    pc = "books_done"
        => LET cs == root.children
               at == {k \in 1..Len(cs) : cs[k].tag = "book"}
               Rank(k) == Cardinality({j \in at : j <= k})
           IN /\ Len(result.value) = Cardinality(at)
              /\ \A k \in at : result.value[Rank(k)] = create_book_dict(cs[k])

C8_Witness ==
    /\ pc = "books_done"
    /\ Len(root.children) = 2
    /\ root.children[1] = root.children[2]
    /\ root.children[1].tag = "book"
    /\ root.children[1].children # <<>>
    /\ Len(result.value) = 2
    /\ result.value[1] = result.value[2]

\* The Parameter elements on the Input path of the root, in document order.
InputPathParameters ==
    Flatten([i \in 1..Len(root.children) |->
                IF root.children[i].tag = "Input"
                THEN root.children[i].children ELSE <<>>])

Unrecognized(param) == param.type \notin {"int", "float", "str", "bool"}

\* C9 as stated: a descriptor with a parameter of unrecognized type is parsed
\* with that type kept, and generate_function_call on it fails with the
\* unsupported-type error.
C9_UnrecognizedTypeAlwaysFails ==
    /\ pc \in {"parsed", "generate_done"}
          => /\ Len(func.parameters) = Len(InputPathParameters)
             /\ \A i \in 1..Len(func.parameters) :
                   func.parameters[i].type = InputPathParameters[i].type
    /\ (pc = "generate_done" /\ \E i \in 1..Len(func.parameters) :
                                    Unrecognized(func.parameters[i]))
          => result = [status |-> "error", error |-> "UnsupportedType"]

\* C9 amended: the parse keeps every declared type; generate_function_call
\* fails whenever a parameter of unrecognized type has a raw value, and the
\* failure is the unsupported-type error unless an earlier parameter's value
\* fails its numeric conversion first.  An unrecognized type on a parameter
\* without a raw value is not an error.
C9_UnrecognizedTypeWithValueFails ==
    /\ pc \in {"parsed", "generate_done"}
          => /\ Len(func.parameters) = Len(InputPathParameters)
             /\ \A i \in 1..Len(func.parameters) :
                   func.parameters[i].type = InputPathParameters[i].type
    /\ pc = "generate_done"
          => \A i \in 1..Len(func.parameters) :
                LET p == func.parameters[i]
                    BadNumber(q) ==
                        \/ q.type = "int" /\ ~convert_int(q.value.val).ok
                        \/ q.type = "float" /\ ~convert_float(q.value.val).ok
                IN (Unrecognized(p) /\ p.value.some)
                      => /\ result.status = "error"
                         /\ (\A j \in 1..(i - 1) :
                                ~(func.parameters[j].value.some
                                    /\ BadNumber(func.parameters[j])))
                               => result.error = "UnsupportedType"

C9_Witness ==
    /\ pc = "generate_done"
    /\ func.parameters =
           <<[name |-> "a", type |-> "int", value |-> Some(<<"5">>)],
             [name |-> "b", type |-> "date", value |-> Some(<<"5">>)]>>
    /\ result = [status |-> "error", error |-> "UnsupportedType"]

Convertible(f) ==
    \A i \in 1..Len(f.parameters) :
        LET p == f.parameters[i]
        IN p.value.some
              => /\ ~Unrecognized(p)
                 /\ p.type = "int" => convert_int(p.value.val).ok
                 /\ p.type = "float" => convert_float(p.value.val).ok

\* C10 as stated: with recognized types and convertible values, the mapping
\* has one entry for each parameter with a raw value, keyed by its name and
\* holding its converted value, and no entry for a parameter without one.
C10_OneEntryPerPresentParameter ==
    (pc = "generate_done" /\ Convertible(func))
        => LET ps == func.parameters
               present == {i \in 1..Len(ps) : ps[i].value.some}
           IN /\ result.status = "ok"
              /\ Cardinality(DOMAIN result.value) = Cardinality(present)
              /\ \A i \in present :
                    /\ ps[i].name \in DOMAIN result.value
                    /\ result.value[ps[i].name] =
                           convert_type(ps[i].value, ps[i].type).val
              /\ \A i \in 1..Len(ps) \ present :
                    ps[i].name \notin DOMAIN result.value

\* C10 amended: the keys of the mapping are the names of the parameters with
\* a raw value; each key holds the converted value of the last such parameter
\* of that name; a name carried only by parameters without a raw value has no
\* entry.  a:int "5", b:int "3" gives {a: 5, b: 3} as integers.
C10_EntryPerPresentName ==
    (pc = "generate_done" /\ Convertible(func))
        => LET ps == func.parameters
               present == {i \in 1..Len(ps) : ps[i].value.some}
           IN /\ result.status = "ok"
              /\ DOMAIN result.value = {ps[i].name : i \in present}
              /\ \A i \in present :
                    (\A j \in present : ps[j].name = ps[i].name => j <= i)
                       => result.value[ps[i].name] =
                              convert_type(ps[i].value, ps[i].type).val
              /\ (ps = <<[name |-> "a", type |-> "int", value |-> Some(<<"5">>)],
                         [name |-> "b", type |-> "int", value |-> Some(<<"3">>)]>>)
                    => result.value = ("a" :> [t |-> "int", v |-> 5]
                                       @@ "b" :> [t |-> "int", v |-> 3])

C10_Witness ==
    /\ pc = "generate_done"
    /\ func.parameters =
           <<[name |-> "a", type |-> "int", value |-> Some(<<"5">>)],
             [name |-> "b", type |-> "int", value |-> Absent]>>
    /\ result = [status |-> "ok", value |-> ("a" :> [t |-> "int", v |-> 5])]

====
